---- MODULE Spec2Model ----
(***************************************************************************)
(* Flappy Bevy (src/src/main.rs): the per-frame simulation and the         *)
(* two-state round lifecycle, on Bevy 0.9's State<T> driver.               *)
(*                                                                         *)
(* Numbers.  The program computes in f32; the model computes in exact      *)
(* fixed point.  Time is counted in clock quanta of 1/Q second, positions  *)
(* in units of 1/U pixel with U = 6*Q*Q (so that WIDTH/4, all half-extents *)
(* and every velocity*dt*100 step are whole numbers), velocities in units  *)
(* of 1/Q.                                                                 *)
(*                                                                         *)
(* Scheduling.  All systems live in CoreStage::Update.  One frame is a     *)
(* sequence of passes: the state driver's run criterion (state_cleaner)    *)
(* is evaluated, then the run criteria of the system sets, the systems     *)
(* whose criterion said yes run, their command buffers are applied, and    *)
(* the criteria are evaluated again, until state_cleaner says No.  The     *)
(* systems of one pass carry no ordering constraint (no label, before or   *)
(* after in main), so the executor may run them in any order: each system  *)
(* is one action, enabled once in its pass.                                *)
(***************************************************************************)
EXTENDS Integers, Sequences, FiniteSets, TLC

----------------------------------------------------------------------------
(* Bounds of the model *)

\* clock quanta per second
Q == 2
\* length of a long frame, in quanta
LongDt == 3
\* quanta of simulated time explored per round
MaxTime == 7
\* rounds explored (restart clicks are offered while a further round is left)
MaxRounds == 2
\* activation inputs offered per round
MaxJumps == 1
\* mouse presses that hit no control are offered while the round is at most this old
StrayClickTime == 1
\* quanta of simulated time explored after the late start of SpecLate
LateTime == 4

\* position units per pixel
U == 6 * Q * Q

----------------------------------------------------------------------------
(* Program constants *)

WIDTH == (1280 * U) \div 3
HEIGHT == (720 * U) \div 3
PIPE_HEIGHT == 160 * U
PIPE_WIDTH == 26 * U
BIRD_HEIGHT == 12 * U
BIRD_WIDTH == 17 * U

PIPE_SPEED == 2 * Q
GRAVITY == 7
JUMP_VELOCITY == 2 * Q
\* Timer::from_seconds(1.0, TimerMode::Repeating)
PERIOD == 1 * Q

MAX_HOLE_SIZE == 100 * U
MIN_HOLE_SIZE == 40 * U
MAX_HOLE_HEIGHT == HEIGHT \div 4
MIN_HOLE_HEIGHT == (-HEIGHT) \div 4

\* draws of the generator, <<hole_size, hole_height>>, hole_size from
\* MIN_HOLE_SIZE..MAX_HOLE_SIZE and hole_height from MIN_HOLE_HEIGHT..MAX_HOLE_HEIGHT:
\* the smallest hole at the lowest height (its upper pipe covers the start height of
\* the bird) and the largest hole at the centre (the bird at its start height passes)
Holes == {<<MIN_HOLE_SIZE, MIN_HOLE_HEIGHT>>, <<MAX_HOLE_SIZE - U, 0>>}

\* frame lengths offered by the clock, in quanta: a short frame and a long one
Dts == {1, LongDt}

AppState == {"Game", "GameOver"}
Interaction == {"None", "Hovered", "Clicked"}

UpdateGame ==
    {"jump", "spawn_pipes", "check_collisions", "apply_gravity", "apply_velocity",
     "remove_offscreen_pipes"}

----------------------------------------------------------------------------
VARIABLES
    app_state,   \* State<AppState>: current, transition, scheduled, end_next_loop, prep_exit
    entities,    \* the world's entities, in spawn order
    spawn_q,     \* Commands: entities queued for spawn in this pass
    despawn_q,   \* Commands: indices of entities queued for despawn in this pass
    dt,          \* Time::delta of the frame, in quanta
    space,       \* Input::just_pressed(KeyCode::Space) of the frame
    pc,          \* "idle" between frames, "run" inside a pass
    active,      \* systems whose run criterion said yes in this pass
    ran,         \* systems of this pass that have run
    panicked,    \* an unwrap() failed
    epoch,       \* history: number of state changes so far
    ntrans,      \* history: state changes in this frame
    requester,   \* history: system whose State::set succeeded in this frame
    entered,     \* history: this pass directly follows on_enter(Game)
    acc,         \* history: dt accumulated by spawn_pipes in this round
    spawned,     \* history: pairs spawned by spawn_pipes in this round
    tick_spawned,\* history: pairs queued for spawn in this frame
    jumps,       \* history: activation inputs delivered in this round
    hit,         \* history: a hit condition held when check_collisions ran in this frame
    cc,          \* history: what check_collisions saw in this pass
    mouse,       \* Input::pressed(MouseButton::Left) of the frame
    budget,      \* quanta of simulated time still explored in this round
    draws,       \* history: the generator's draws behind the pipes of spawn_q
    ghosts       \* the pipes remove_offscreen_pipes has removed in this round, moved on
                 \* by apply_velocity as if they had stayed: the run without the system

vars ==
    <<app_state, entities, spawn_q, despawn_q, dt, space, pc, active, ran, panicked,
      epoch, ntrans, requester, entered, acc, spawned, tick_spawned, jumps, hit, cc,
      mouse, budget, draws, ghosts>>

----------------------------------------------------------------------------
(* Entities: one record shape for all; a component an entity does not      *)
(* carry holds a default.  kind is the marker (Bird, Pipe, PipeTimer, the  *)
(* game-over image, the restart button, the camera).                       *)

Entity(kind, x, y, vx, vy, clean) ==
    [kind |-> kind, x |-> x, y |-> y, vx |-> vx, vy |-> vy, gravity |-> FALSE,
     elapsed |-> 0, interaction |-> "None", changed |-> FALSE, clean |-> clean,
     born |-> 0]

Camera == Entity("Camera", 0, 0, 0, 0, FALSE)

NewBird == Entity("Bird", -(WIDTH \div 4), 0, 0, 0, TRUE)

NewPipeTimer == Entity("PipeTimer", 0, 0, 0, 0, TRUE)

\* a pipe spawned without CleanOnSceneChange
NewPipeNotCleaned(y) == Entity("Pipe", WIDTH \div 2, y, -PIPE_SPEED, 0, FALSE)

NewPipe(y) == Entity("Pipe", WIDTH \div 2, y, -PIPE_SPEED, 0, TRUE)

GameOverImage == Entity("Image", 0, 15 * U, 0, 0, TRUE)

\* a button that is born clicked
RestartButtonClicked ==
    [Entity("Button", 0, 0, 0, 0, TRUE) EXCEPT !.changed = TRUE, !.interaction = "Clicked"]

\* a spawned ButtonBundle: Interaction::None, seen as changed (added) by the first query
RestartButton == [Entity("Button", 0, 0, 0, 0, TRUE) EXCEPT !.changed = TRUE]

HasVelocity(e) == e.kind \in {"Bird", "Pipe"}

Idx(kind) == {i \in 1..Len(entities) : entities[i].kind = kind}

Count(kind) == Cardinality(Idx(kind))

----------------------------------------------------------------------------
(* State<AppState> of Bevy 0.9, as main drives it (add_state and the       *)
(* on_enter / on_update / on_exit system sets).                            *)

NoTransition == [t |-> "None", from |-> "-", to |-> "-"]

Transition(t, from, to) == [t |-> t, from |-> from, to |-> to]

\* State::new(AppState::Game)
NewState(initial) ==
    [current |-> initial, transition |-> Transition("PreStartup", "-", "-"),
     scheduled |-> "None", end_next_loop |-> FALSE, prep_exit |-> FALSE]

\* State::set: Err(AlreadyInState) when the target is the current state,
\* Err(StateAlreadyQueued) when an operation is already scheduled, else schedule it
StateSet(s, target) ==
    IF s.current = target THEN [st |-> s, ok |-> FALSE]
    ELSE IF s.scheduled # "None" THEN [st |-> s, ok |-> FALSE]
    ELSE [st |-> [s EXCEPT !.scheduled = target], ok |-> TRUE]

\* n calls of State::set in a row: the state after them and the number of Err results
RECURSIVE SetTimes(_, _, _)
SetTimes(s, target, n) ==
    IF n = 0 THEN [st |-> s, errs |-> 0]
    ELSE LET r == StateSet(s, target)
             rest == SetTimes(r.st, target, n - 1)
         IN  [st |-> rest.st, errs |-> rest.errs + (IF r.ok THEN 0 ELSE 1)]

\* the driver's run criterion: one evaluation; again = ShouldRun::YesAndCheckAgain
state_cleaner(s) ==
    IF s.prep_exit /\ s.scheduled = "None"
    THEN [st |-> [s EXCEPT !.prep_exit = FALSE, !.end_next_loop = TRUE], again |-> TRUE]
    ELSE IF ~s.prep_exit /\ s.end_next_loop
    THEN [st |-> [s EXCEPT !.end_next_loop = FALSE], again |-> FALSE]
    ELSE LET s0 == [s EXCEPT !.prep_exit = FALSE]
             s1 == IF s0.scheduled # "None"
                   THEN [s0 EXCEPT !.scheduled = "None",
                                   !.transition =
                                       Transition("ExitingFull", s0.current, s0.scheduled)]
                   ELSE IF s0.transition.t = "ExitingFull"
                   THEN [s0 EXCEPT !.transition =
                                       Transition("Entering", s0.transition.from,
                                                  s0.transition.to),
                                   !.current = s0.transition.to]
                   ELSE IF s0.transition.t = "PreStartup"
                   THEN [s0 EXCEPT !.transition = Transition("Startup", "-", "-")]
                   ELSE [s0 EXCEPT !.transition = NoTransition]
             s2 == IF s1.transition.t = "None" THEN [s1 EXCEPT !.prep_exit = TRUE] ELSE s1
         IN  [st |-> s2, again |-> TRUE]

on_enter(s, pred) ==
    \/ s.transition.t = "Entering" /\ s.transition.to = pred
    \/ s.transition.t = "Startup" /\ s.current = pred

on_update(s, pred) == s.current = pred /\ s.transition.t = "None"

on_exit(s, pred) == s.transition.t = "ExitingFull" /\ s.transition.from = pred

\* restart_game registered with add_system, outside the system set of
\* on_update(GameOver)
ActiveSystemsRestartAlways(s) ==
    IF s.end_next_loop THEN {}
    ELSE (IF on_enter(s, "Game") THEN {"game_setup"} ELSE {})
         \cup (IF on_update(s, "Game") THEN UpdateGame ELSE {})
         \cup (IF on_exit(s, "Game") THEN {"scene_change_clean"} ELSE {})
         \cup (IF on_enter(s, "GameOver") THEN {"create_gameover_ui"} ELSE {})
         \cup {"restart_game"}
         \cup (IF on_exit(s, "GameOver") THEN {"scene_change_clean"} ELSE {})

\* the systems main registers, by the run criterion of their set
\* (should_run_adapter: nothing runs once end_next_loop is set)
ActiveSystems(s) ==
    IF s.end_next_loop THEN {}
    ELSE (IF on_enter(s, "Game") THEN {"game_setup"} ELSE {})
         \cup (IF on_update(s, "Game") THEN UpdateGame ELSE {})
         \cup (IF on_exit(s, "Game") THEN {"scene_change_clean"} ELSE {})
         \cup (IF on_enter(s, "GameOver") THEN {"create_gameover_ui"} ELSE {})
         \cup (IF on_update(s, "GameOver") THEN {"restart_game"} ELSE {})
         \cup (IF on_exit(s, "GameOver") THEN {"scene_change_clean"} ELSE {})

----------------------------------------------------------------------------
(* Helpers on the entity list *)

\* the list without the entities at the indices in drop
Without(seq, drop) ==
    LET F[i \in 0..Len(seq)] ==
            IF i = 0 THEN <<>>
            ELSE IF i \in drop THEN F[i - 1] ELSE Append(F[i - 1], seq[i])
    IN  F[Len(seq)]

\* Commands applied at the end of a pass: despawns, then spawns
ApplyBuffers(es, drop, add) == Without(es, drop) \o add

\* the entities at the indices in keep
Only(seq, keep) == Without(seq, (1..Len(seq)) \ keep)

NoCC ==
    [ran |-> FALSE, oob |-> FALSE, overlap |-> FALSE, n |-> 0, calls |-> 0,
     ghost_calls |-> 0]

Init ==
    /\ app_state = NewState("Game")
    /\ entities = <<Camera>>
    /\ spawn_q = <<>>
    /\ despawn_q = {}
    /\ dt = 0
    /\ space = FALSE
    /\ pc = "idle"
    /\ active = {}
    /\ ran = {}
    /\ panicked = FALSE
    /\ epoch = 0
    /\ ntrans = 0
    /\ requester = "none"
    /\ entered = FALSE
    /\ acc = 0
    /\ spawned = 0
    /\ tick_spawned = 0
    /\ jumps = 0
    /\ hit = FALSE
    /\ cc = NoCC
    /\ mouse = FALSE
    /\ budget = MaxTime
    /\ draws = <<>>
    /\ ghosts = <<>>

----------------------------------------------------------------------------
(* The systems, as functions of what they read *)

\* game_setup: the bird and the pipe timer
game_setup(ep) ==
    << [NewBird EXCEPT !.born = ep], [NewPipeTimer EXCEPT !.born = ep] >>

\* create_gameover_ui: the game-over image and the restart button
create_gameover_ui(ep) ==
    << [GameOverImage EXCEPT !.born = ep], [RestartButton EXCEPT !.born = ep] >>

\* Timer::tick of a repeating timer: the new elapsed time and times_finished_this_tick
tick(elapsed, delta) ==
    LET e == elapsed + delta
    IN  IF e >= PERIOD
        THEN [elapsed |-> e % PERIOD, times_finished |-> e \div PERIOD]
        ELSE [elapsed |-> e, times_finished |-> 0]

\* Timer::just_finished
just_finished(t) == t.times_finished > 0

\* a spawn_pipe_couple that adds half the hole to the lower pipe as well
spawn_pipe_couple_same_sign(hole_size, hole_height, ep) ==
    LET top == PIPE_HEIGHT \div 2 + hole_height + hole_size \div 2
        bottom == (-PIPE_HEIGHT) \div 2 + hole_height + hole_size \div 2
    IN  << [NewPipe(top) EXCEPT !.born = ep], [NewPipe(bottom) EXCEPT !.born = ep] >>

\* spawn_pipe_couple: the upper and the lower pipe for one draw of the generator
spawn_pipe_couple(hole_size, hole_height, ep) ==
    LET top == PIPE_HEIGHT \div 2 + hole_height + hole_size \div 2
        bottom == (-PIPE_HEIGHT) \div 2 + hole_height - hole_size \div 2
    IN  << [NewPipe(top) EXCEPT !.born = ep], [NewPipe(bottom) EXCEPT !.born = ep] >>

\* the rectangle test with >= and <= for > and <: touching edges count as a hit
collides_or_touches(c, b) ==
    /\ c.x + PIPE_WIDTH \div 2 >= b.x - BIRD_WIDTH \div 2
    /\ c.x - PIPE_WIDTH \div 2 <= b.x + BIRD_WIDTH \div 2
    /\ c.y + PIPE_HEIGHT \div 2 >= b.y - BIRD_HEIGHT \div 2
    /\ c.y - PIPE_HEIGHT \div 2 <= b.y + BIRD_HEIGHT \div 2

\* the rectangle test of check_collisions, collider c against bird b
collides(c, b) ==
    /\ c.x + PIPE_WIDTH \div 2 > b.x - BIRD_WIDTH \div 2
    /\ c.x - PIPE_WIDTH \div 2 < b.x + BIRD_WIDTH \div 2
    /\ c.y + PIPE_HEIGHT \div 2 > b.y - BIRD_HEIGHT \div 2
    /\ c.y - PIPE_HEIGHT \div 2 < b.y + BIRD_HEIGHT \div 2

\* the vertical bound test of check_collisions
out_of_bounds(b) == b.y > HEIGHT \div 2 \/ b.y < (-HEIGHT) \div 2

\* the (bird, collider) pairs for which check_collisions calls State::set:
\* the bound test sits inside the loop over the colliders
hit_pairs(es) ==
    {p \in {i \in 1..Len(es) : es[i].kind = "Bird"}
           \X {i \in 1..Len(es) : es[i].kind = "Pipe"} :
        collides(es[p[2]], es[p[1]]) \/ out_of_bounds(es[p[1]])}

\* unwrap() where check_collisions has ok(): a failed call panics
ok_as_unwrap(errs) == errs > 0

\* Result::ok() of check_collisions: errs failed calls are dropped, nothing panics
ok(errs) == FALSE

\* Result::unwrap() of restart_game: a failed call panics
unwrap(errs) == errs > 0

\* a cull line at the centre of the window, right of the bird
remove_offscreen_pipes_early(es) ==
    {i \in 1..Len(es) : es[i].kind = "Pipe" /\ es[i].x < 0}

\* a cull line at -WIDTH * 1.5
remove_offscreen_pipes_late(es) ==
    {i \in 1..Len(es) : es[i].kind = "Pipe" /\ 2 * es[i].x < -(3 * WIDTH)}

\* remove_offscreen_pipes: the pipes left of -WIDTH / 1.5
remove_offscreen_pipes(es) ==
    {i \in 1..Len(es) : es[i].kind = "Pipe" /\ 3 * es[i].x < -(2 * WIDTH)}

\* an apply_gravity that clears the Gravity flag once it has applied it
apply_gravity_once(es, delta) ==
    [i \in 1..Len(es) |->
        IF es[i].kind = "Bird" /\ es[i].gravity
        THEN [es[i] EXCEPT !.vy = @ - GRAVITY * delta, !.gravity = FALSE]
        ELSE es[i]]

\* an apply_gravity with the sign of the acceleration turned
apply_gravity_upwards(es, delta) ==
    [i \in 1..Len(es) |->
        IF es[i].kind = "Bird" /\ es[i].gravity
        THEN [es[i] EXCEPT !.vy = @ + GRAVITY * delta]
        ELSE es[i]]

\* apply_gravity without the test of Gravity.0
apply_gravity_ungated(es, delta) ==
    [i \in 1..Len(es) |->
        IF es[i].kind = "Bird"
        THEN [es[i] EXCEPT !.vy = @ - GRAVITY * delta]
        ELSE es[i]]

\* apply_gravity, on the entities with Velocity, Gravity and Bird
apply_gravity(es, delta) ==
    [i \in 1..Len(es) |->
        IF es[i].kind = "Bird" /\ es[i].gravity
        THEN [es[i] EXCEPT !.vy = @ - GRAVITY * delta]
        ELSE es[i]]

\* an apply_velocity that keeps every entity inside the vertical field bounds
apply_velocity_clamped(es, delta) ==
    [i \in 1..Len(es) |->
        IF HasVelocity(es[i])
        THEN LET y == es[i].y + (es[i].vy * delta * 100 * U) \div (Q * Q)
             IN  [es[i] EXCEPT !.x = @ + (es[i].vx * delta * 100 * U) \div (Q * Q),
                               !.y = IF y > HEIGHT \div 2 THEN HEIGHT \div 2
                                     ELSE IF y < (-HEIGHT) \div 2 THEN (-HEIGHT) \div 2
                                     ELSE y]
        ELSE es[i]]

\* apply_velocity, on the entities with Velocity and Transform
apply_velocity(es, delta) ==
    [i \in 1..Len(es) |->
        IF HasVelocity(es[i])
        THEN [es[i] EXCEPT !.x = @ + (es[i].vx * delta * 100 * U) \div (Q * Q),
                           !.y = @ + (es[i].vy * delta * 100 * U) \div (Q * Q)]
        ELSE es[i]]

\* a jump that adds the impulse to the velocity
jump_adds(es, just_pressed) ==
    [i \in 1..Len(es) |->
        IF just_pressed /\ es[i].kind = "Bird"
        THEN [es[i] EXCEPT !.gravity = TRUE, !.vy = @ + JUMP_VELOCITY]
        ELSE es[i]]

\* jump, on the entities with Velocity, Gravity and Bird
jump(es, just_pressed) ==
    [i \in 1..Len(es) |->
        IF just_pressed /\ es[i].kind = "Bird"
        THEN [es[i] EXCEPT !.gravity = TRUE, !.vy = JUMP_VELOCITY]
        ELSE es[i]]

\* a teardown that spares the bird
scene_change_clean_spares_bird(es) ==
    {i \in 1..Len(es) : es[i].clean /\ es[i].kind # "Bird"}

\* a teardown that spares the pipe timer
scene_change_clean_spares_timer(es) ==
    {i \in 1..Len(es) : es[i].clean /\ es[i].kind # "PipeTimer"}

\* scene_change_clean: every entity with CleanOnSceneChange
scene_change_clean(es) == {i \in 1..Len(es) : es[i].clean}

\* the Interaction of every button as the UI focus system leaves it before Update
ui_focus(es, m) ==
    [i \in 1..Len(es) |->
        IF es[i].kind = "Button"
        THEN [es[i] EXCEPT !.interaction = m[i],
                           !.changed = @ \/ m[i] # es[i].interaction]
        ELSE es[i]]

\* a restart_game that also takes Space for a click
restart_clicks_or_space(es) ==
    {i \in 1..Len(es) :
        es[i].kind = "Button" /\ (space \/ (es[i].changed /\ es[i].interaction = "Clicked"))}

\* restart_game: the buttons of Query<&Interaction, Changed<Interaction>> that are Clicked
restart_clicks(es) ==
    {i \in 1..Len(es) :
        es[i].kind = "Button" /\ es[i].changed /\ es[i].interaction = "Clicked"}

----------------------------------------------------------------------------
(* The frame loop of SystemStage::run *)

\* one evaluation of the run criteria after the state s was left by the last pass:
\* the driver's criterion first, then the criteria of the system sets
EvalCriteria(s, was_enter) ==
    LET r == state_cleaner(s)
        changed == IF r.st.current # s.current THEN 1 ELSE 0
    IN  /\ app_state' = r.st
        /\ pc' = IF r.again THEN "run" ELSE "idle"
        /\ active' = IF r.again THEN ActiveSystems(r.st) ELSE {}
        /\ ran' = {}
        /\ epoch' = epoch + changed
        /\ entered' = (r.again /\ was_enter)
        /\ r.again => ntrans' = ntrans + changed
        /\ ~r.again => ntrans' = ntrans

Runs(name) == pc = "run" /\ ~panicked /\ name \in active \ ran

\* a frame begins: the clock, the keyboard and the UI focus system deliver the
\* frame's inputs, and the run criteria are evaluated for the first pass
BeginFrame ==
    /\ pc = "idle"
    /\ ~panicked
    /\ \E d \in Dts, sp \in BOOLEAN, ms \in BOOLEAN, m \in [Idx("Button") -> Interaction] :
        /\ d <= (IF app_state.current = "Game" THEN budget ELSE MaxTime)
        /\ (\E i \in DOMAIN m : m[i] = "Clicked") => ms /\ epoch + 1 < 2 * MaxRounds
        /\ ms /\ (\A i \in DOMAIN m : m[i] # "Clicked") => acc <= StrayClickTime
        /\ sp /\ app_state.current = "Game" => jumps < MaxJumps
        /\ dt' = d
        /\ space' = sp
        /\ mouse' = ms
        /\ entities' = ui_focus(entities, m)
    /\ LET r == state_cleaner(app_state)
       IN  /\ app_state' = r.st
           /\ pc' = "run"
           /\ active' = ActiveSystems(r.st)
    /\ ran' = {}
    /\ ntrans' = 0
    /\ requester' = "none"
    /\ entered' = FALSE
    /\ tick_spawned' = 0
    /\ hit' = FALSE
    /\ cc' = NoCC
    /\ UNCHANGED <<spawn_q, despawn_q, panicked, epoch, acc, spawned, jumps, budget, draws,
                   ghosts>>

\* a pass ends: the command buffers are applied and the run criteria evaluated again;
\* the frame ends when the driver's criterion says No
EndPass ==
    /\ pc = "run"
    /\ ~panicked
    /\ active \subseteq ran
    /\ entities' = ApplyBuffers(entities, despawn_q, spawn_q)
    /\ spawn_q' = <<>>
    /\ despawn_q' = {}
    /\ EvalCriteria(app_state, "game_setup" \in active)
    /\ dt' = IF pc' = "idle" THEN 0 ELSE dt
    /\ space' = IF pc' = "idle" THEN FALSE ELSE space
    /\ mouse' = IF pc' = "idle" THEN FALSE ELSE mouse
    /\ cc' = NoCC
    /\ draws' = <<>>
    /\ ghosts' = IF "scene_change_clean" \in active THEN <<>>
                 ELSE ghosts \o Only(entities, despawn_q)
    /\ UNCHANGED <<panicked, requester, acc, spawned, tick_spawned, jumps, hit, budget>>

GameSetup ==
    /\ Runs("game_setup")
    /\ ran' = ran \cup {"game_setup"}
    /\ spawn_q' = spawn_q \o game_setup(epoch)
    /\ acc' = 0
    /\ spawned' = 0
    /\ jumps' = 0
    /\ budget' = MaxTime
    /\ UNCHANGED <<app_state, entities, despawn_q, dt, space, pc, active, panicked, epoch,
                   ntrans, requester, entered, tick_spawned, hit, cc, mouse, draws, ghosts>>

Jump ==
    /\ Runs("jump")
    /\ ran' = ran \cup {"jump"}
    /\ entities' = jump(entities, space)
    /\ jumps' = IF space THEN jumps + 1 ELSE jumps
    /\ UNCHANGED <<app_state, spawn_q, despawn_q, dt, space, pc, active, panicked, epoch,
                   ntrans, requester, entered, acc, spawned, tick_spawned, hit, cc, mouse,
                   budget, draws, ghosts>>

\* every PipeTimer is ticked; each one that just finished spawns one couple
SpawnPipes ==
    /\ Runs("spawn_pipes")
    /\ ran' = ran \cup {"spawn_pipes"}
    /\ LET timers == Idx("PipeTimer")
           ticked == [i \in timers |-> tick(entities[i].elapsed, dt)]
           fired == {i \in timers : just_finished(ticked[i])}
       IN  /\ entities' = [i \in 1..Len(entities) |->
                              IF i \in timers
                              THEN [entities[i] EXCEPT !.elapsed = ticked[i].elapsed]
                              ELSE entities[i]]
           /\ \E hole \in [fired -> Holes] :
                LET F[i \in 0..Len(entities)] ==
                        IF i = 0 THEN <<>>
                        ELSE IF i \in fired
                        THEN F[i - 1] \o spawn_pipe_couple(hole[i][1], hole[i][2], epoch)
                        ELSE F[i - 1]
                    D[i \in 0..Len(entities)] ==
                        IF i = 0 THEN <<>>
                        ELSE IF i \in fired THEN Append(D[i - 1], hole[i])
                        ELSE D[i - 1]
                IN  /\ spawn_q' = spawn_q \o F[Len(entities)]
                    /\ draws' = draws \o D[Len(entities)]
           /\ spawned' = spawned + Cardinality(fired)
           /\ tick_spawned' = tick_spawned + Cardinality(fired)
    /\ acc' = acc + dt
    /\ budget' = budget - dt
    /\ UNCHANGED <<app_state, despawn_q, dt, space, pc, active, panicked, epoch, ntrans,
                   requester, entered, jumps, hit, cc, mouse, ghosts>>

CheckCollisions ==
    /\ Runs("check_collisions")
    /\ ran' = ran \cup {"check_collisions"}
    /\ LET calls == Cardinality(hit_pairs(entities))
           r == SetTimes(app_state, "GameOver", calls)
       IN  /\ app_state' = r.st
           /\ panicked' = ok(r.errs)
           /\ requester' = IF r.errs < calls THEN "check_collisions" ELSE requester
           /\ cc' = [ran |-> TRUE,
                     oob |-> \E b \in Idx("Bird") : out_of_bounds(entities[b]),
                     overlap |-> \E b \in Idx("Bird"), c \in Idx("Pipe") :
                                     collides(entities[c], entities[b]),
                     n |-> Count("Pipe"),
                     calls |-> calls,
                     ghost_calls |-> Cardinality(hit_pairs(entities \o ghosts))]
           /\ hit' = (cc'.oob \/ cc'.overlap)
    /\ UNCHANGED <<entities, spawn_q, despawn_q, dt, space, pc, active, epoch, ntrans,
                   entered, acc, spawned, tick_spawned, jumps, mouse, budget, draws, ghosts>>

ApplyGravity ==
    /\ Runs("apply_gravity")
    /\ ran' = ran \cup {"apply_gravity"}
    /\ entities' = apply_gravity(entities, dt)
    /\ UNCHANGED <<app_state, spawn_q, despawn_q, dt, space, pc, active, panicked, epoch,
                   ntrans, requester, entered, acc, spawned, tick_spawned, jumps, hit, cc,
                   mouse, budget, draws, ghosts>>

ApplyVelocity ==
    /\ Runs("apply_velocity")
    /\ ran' = ran \cup {"apply_velocity"}
    /\ entities' = apply_velocity(entities, dt)
    /\ ghosts' = apply_velocity(ghosts, dt)
    /\ UNCHANGED <<app_state, spawn_q, despawn_q, dt, space, pc, active, panicked, epoch,
                   ntrans, requester, entered, acc, spawned, tick_spawned, jumps, hit, cc,
                   mouse, budget, draws>>

RemoveOffscreenPipes ==
    /\ Runs("remove_offscreen_pipes")
    /\ ran' = ran \cup {"remove_offscreen_pipes"}
    /\ despawn_q' = despawn_q \cup remove_offscreen_pipes(entities)
    /\ UNCHANGED <<app_state, entities, spawn_q, dt, space, pc, active, panicked, epoch,
                   ntrans, requester, entered, acc, spawned, tick_spawned, jumps, hit, cc,
                   mouse, budget, draws, ghosts>>

SceneChangeClean ==
    /\ Runs("scene_change_clean")
    /\ ran' = ran \cup {"scene_change_clean"}
    /\ despawn_q' = despawn_q \cup scene_change_clean(entities)
    /\ UNCHANGED <<app_state, entities, spawn_q, dt, space, pc, active, panicked, epoch,
                   ntrans, requester, entered, acc, spawned, tick_spawned, jumps, hit, cc,
                   mouse, budget, draws, ghosts>>

CreateGameoverUi ==
    /\ Runs("create_gameover_ui")
    /\ ran' = ran \cup {"create_gameover_ui"}
    /\ spawn_q' = spawn_q \o create_gameover_ui(epoch)
    /\ acc' = 0
    /\ spawned' = 0
    /\ jumps' = 0
    /\ budget' = MaxTime
    /\ UNCHANGED <<app_state, entities, despawn_q, dt, space, pc, active, panicked, epoch,
                   ntrans, requester, entered, tick_spawned, hit, cc, mouse, draws, ghosts>>

\* one State::set(AppState::Game).unwrap() per changed, clicked button; the query
\* has then seen every change
RestartGame ==
    /\ Runs("restart_game")
    /\ ran' = ran \cup {"restart_game"}
    /\ LET calls == Cardinality(restart_clicks(entities))
           r == SetTimes(app_state, "Game", calls)
       IN  /\ app_state' = r.st
           /\ panicked' = unwrap(r.errs)
           /\ requester' = IF r.errs < calls THEN "restart_game" ELSE requester
    /\ entities' = [i \in 1..Len(entities) |->
                       IF entities[i].kind = "Button"
                       THEN [entities[i] EXCEPT !.changed = FALSE]
                       ELSE entities[i]]
    /\ UNCHANGED <<spawn_q, despawn_q, dt, space, pc, active, epoch, ntrans, entered, acc,
                   spawned, tick_spawned, jumps, hit, cc, mouse, budget, draws, ghosts>>

Next ==
    \/ BeginFrame
    \/ EndPass
    \/ GameSetup
    \/ Jump
    \/ SpawnPipes
    \/ CheckCollisions
    \/ ApplyGravity
    \/ ApplyVelocity
    \/ RemoveOffscreenPipes
    \/ SceneChangeClean
    \/ CreateGameoverUi
    \/ RestartGame

Spec == Init /\ [][Next]_vars

----------------------------------------------------------------------------
(* check_collisions on its own: the update pass of a Playing frame, the    *)
(* bird at a sampled height and up to two pipe couples at sampled          *)
(* abscissae, among them the ones where the rectangles touch exactly.      *)

Abs(n) == IF n < 0 THEN -n ELSE n

BirdX == -(WIDTH \div 4)

ReachX == (PIPE_WIDTH + BIRD_WIDTH) \div 2

ReachY == (PIPE_HEIGHT + BIRD_HEIGHT) \div 2

\* the ordinates of the pipes the sampled draws give
PipeYs == {spawn_pipe_couple(h[1], h[2], 0)[k].y : h \in Holes, k \in 1..2}

\* pipe abscissae: touching the bird on either side, one unit inside, one unit
\* outside, centred on the bird, and at the spawn abscissa
PipeXs ==
    {BirdX + s * (ReachX + d) : s \in {-1, 1}, d \in {-1, 0, 1}} \cup {BirdX, WIDTH \div 2}

\* bird heights: the start height, the field bounds and one unit beyond them, and
\* the heights at which the bird touches a sampled pipe, one unit inside and outside
BirdYs ==
    {0, HEIGHT \div 2, (-HEIGHT) \div 2, HEIGHT \div 2 + 1, (-HEIGHT) \div 2 - 1}
    \cup {y + s * (ReachY + d) : y \in PipeYs, s \in {-1, 1}, d \in {-1, 0, 1}}

CoupleAt(x, h) ==
    LET c == spawn_pipe_couple(h[1], h[2], 0)
    IN  << [c[1] EXCEPT !.x = x], [c[2] EXCEPT !.x = x] >>

Couples == {CoupleAt(x, h) : x \in PipeXs, h \in Holes}

InitCollide ==
    /\ app_state = [NewState("Game") EXCEPT !.transition = NoTransition, !.prep_exit = TRUE]
    /\ \E y \in BirdYs, ps \in {<<>>} \cup Couples \cup {a \o b : a \in Couples, b \in Couples} :
        entities = <<Camera, [NewBird EXCEPT !.y = y, !.gravity = TRUE], NewPipeTimer>> \o ps
    /\ spawn_q = <<>>
    /\ despawn_q = {}
    /\ dt = 1
    /\ space = FALSE
    /\ pc = "run"
    /\ active = UpdateGame
    /\ ran = {}
    /\ panicked = FALSE
    /\ epoch = 0
    /\ ntrans = 0
    /\ requester = "none"
    /\ entered = FALSE
    /\ acc = 0
    /\ spawned = 0
    /\ tick_spawned = 0
    /\ jumps = 0
    /\ hit = FALSE
    /\ cc = NoCC
    /\ mouse = FALSE
    /\ budget = MaxTime
    /\ draws = <<>>
    /\ ghosts = <<>>

NextCollide == CheckCollisions

SpecCollide == InitCollide /\ [][NextCollide]_vars

----------------------------------------------------------------------------
(* jump on its own: the update pass of a Playing frame, with or without    *)
(* Space, the bird hovering, just activated, or falling for some ticks     *)
(* after an activation, and at most one pipe couple.                       *)

\* ticks of free fall sampled
MaxFall == 4

\* the bird k ticks of one quantum after an activation at the start height, the
\* systems of each tick in the order jump, apply_gravity, apply_velocity
RECURSIVE Fall(_)
Fall(k) ==
    IF k = 0 THEN jump(<<NewBird>>, TRUE)
    ELSE apply_velocity(apply_gravity(Fall(k - 1), 1), 1)

\* the hovering bird, the bird activated at the end of the last tick, the falling bird
BirdsAtJump == {NewBird} \cup {Fall(k)[1] : k \in 0..MaxFall}

InitJump ==
    /\ app_state = [NewState("Game") EXCEPT !.transition = NoTransition, !.prep_exit = TRUE]
    /\ \E b \in BirdsAtJump, ps \in {<<>>} \cup Couples :
        entities = <<Camera, b, NewPipeTimer>> \o ps
    /\ spawn_q = <<>>
    /\ despawn_q = {}
    /\ dt = 1
    /\ space \in BOOLEAN
    /\ pc = "run"
    /\ active = UpdateGame
    /\ ran = {}
    /\ panicked = FALSE
    /\ epoch = 0
    /\ ntrans = 0
    /\ requester = "none"
    /\ entered = FALSE
    /\ acc = 0
    /\ spawned = 0
    /\ tick_spawned = 0
    /\ jumps = 0
    /\ hit = FALSE
    /\ cc = NoCC
    /\ mouse = FALSE
    /\ budget = MaxTime
    /\ draws = <<>>
    /\ ghosts = <<>>

NextJump == Jump

SpecJump == InitJump /\ [][NextJump]_vars

----------------------------------------------------------------------------
(* The late part of a round: the last round explored is under way, the     *)
(* bird has hovered through LateStart ticks of one quantum, the couple     *)
(* spawned by the first firing of the timer (the largest hole, at the      *)
(* centre, which the hovering bird passes) and the couple spawned by the   *)
(* second firing are on their way to the cull line.                        *)

\* quanta played before the late start: two periods and one tick
LateStart == 2 * PERIOD + 1

\* k ticks of one quantum of apply_velocity
RECURSIVE Moved(_, _)
Moved(es, k) == IF k = 0 THEN es ELSE apply_velocity(Moved(es, k - 1), 1)

InitLate ==
    /\ app_state = [NewState("Game") EXCEPT !.transition = NoTransition]
    /\ epoch = 2 * MaxRounds - 2
    /\ \E h \in Holes :
        LET gs == game_setup(epoch)
        IN  entities =
                <<Camera, gs[1], [gs[2] EXCEPT !.elapsed = LateStart % PERIOD]>>
                \o Moved(spawn_pipe_couple(MAX_HOLE_SIZE - U, 0, epoch), LateStart - PERIOD)
                \o Moved(spawn_pipe_couple(h[1], h[2], epoch), LateStart - 2 * PERIOD)
    /\ spawn_q = <<>>
    /\ despawn_q = {}
    /\ dt = 0
    /\ space = FALSE
    /\ pc = "idle"
    /\ active = {}
    /\ ran = {}
    /\ panicked = FALSE
    /\ ntrans = 0
    /\ requester = "none"
    /\ entered = FALSE
    /\ acc = LateStart
    /\ spawned = 2
    /\ tick_spawned = 0
    /\ jumps = 0
    /\ hit = FALSE
    /\ cc = NoCC
    /\ mouse = FALSE
    /\ budget = LateTime
    /\ draws = <<>>
    /\ ghosts = <<>>

\* no restart is offered in the last round explored, so game_setup does not run again
NextLate ==
    \/ BeginFrame
    \/ EndPass
    \/ Jump
    \/ SpawnPipes
    \/ CheckCollisions
    \/ ApplyGravity
    \/ ApplyVelocity
    \/ RemoveOffscreenPipes
    \/ SceneChangeClean
    \/ CreateGameoverUi
    \/ RestartGame

SpecLate == InitLate /\ [][NextLate]_vars

----------------------------------------------------------------------------
(* spawn_pipe_couple on its own: one draw of the generator, sampled over   *)
(* the whole of gen_range(MIN_HOLE_SIZE..MAX_HOLE_SIZE) and                *)
(* gen_range(MIN_HOLE_HEIGHT..MAX_HOLE_HEIGHT), the upper ends excluded.   *)

\* distance of two sampled draws, in pixels
DrawStep == 5

\* hole sizes: every DrawStep pixels from MIN_HOLE_SIZE, and the largest even number
\* of position units below MAX_HOLE_SIZE (hole_size / 2.0 is exact in the program)
HoleSizes ==
    {s \in {MIN_HOLE_SIZE + k * DrawStep * U :
                k \in 0..((MAX_HOLE_SIZE - MIN_HOLE_SIZE) \div (DrawStep * U))} :
        s < MAX_HOLE_SIZE}
    \cup {MAX_HOLE_SIZE - 2}

\* hole heights: every DrawStep pixels from MIN_HOLE_HEIGHT, and one unit below
\* MAX_HOLE_HEIGHT
HoleHeights ==
    {h \in {MIN_HOLE_HEIGHT + k * DrawStep * U :
                k \in 0..((MAX_HOLE_HEIGHT - MIN_HOLE_HEIGHT) \div (DrawStep * U))} :
        h < MAX_HOLE_HEIGHT}
    \cup {MAX_HOLE_HEIGHT - 1}

\* the update pass of a Playing frame in which spawn_pipes found the timer finished
\* and has drawn the hole
InitSpawn ==
    /\ app_state = [NewState("Game") EXCEPT !.transition = NoTransition, !.prep_exit = TRUE]
    /\ entities = <<Camera>> \o game_setup(0)
    /\ spawn_q = <<>>
    /\ despawn_q = {}
    /\ dt = PERIOD
    /\ space = FALSE
    /\ pc = "run"
    /\ active = UpdateGame
    /\ ran = {}
    /\ panicked = FALSE
    /\ epoch = 0
    /\ ntrans = 0
    /\ requester = "none"
    /\ entered = FALSE
    /\ acc = 0
    /\ spawned = 0
    /\ tick_spawned = 0
    /\ jumps = 0
    /\ hit = FALSE
    /\ cc = NoCC
    /\ mouse = FALSE
    /\ budget = MaxTime
    /\ \E s \in HoleSizes, h \in HoleHeights : draws = << <<s, h>> >>
    /\ ghosts = <<>>

\* the call spawn_pipe_couple(&mut commands, &mut asset_server) for the hole drawn
SpawnPipeCouple ==
    /\ pc = "run"
    /\ Len(draws) = 1
    /\ spawn_q = <<>>
    /\ spawn_q' = spawn_pipe_couple(draws[1][1], draws[1][2], epoch)
    /\ UNCHANGED <<app_state, entities, despawn_q, dt, space, pc, active, ran, panicked,
                   epoch, ntrans, requester, entered, acc, spawned, tick_spawned, jumps,
                   hit, cc, mouse, budget, draws, ghosts>>

NextSpawn == SpawnPipeCouple

SpecSpawn == InitSpawn /\ [][NextSpawn]_vars

----------------------------------------------------------------------------
(* Properties *)

Started == app_state.transition.t # "PreStartup"

BetweenTicks == pc = "idle" /\ Started

\* C1: between ticks, once the first tick has run, there is exactly one Bird while the
\* state is Game and no Bird while it is GameOver
C1_BirdCount ==
    BetweenTicks =>
        /\ app_state.current = "Game" => Count("Bird") = 1
        /\ app_state.current = "GameOver" => Count("Bird") = 0

\* a second round is being played, after a hit and a restart: one Bird
C1_Witness ==
    /\ BetweenTicks
    /\ app_state.current = "Game"
    /\ epoch = 2
    /\ acc > 0
    /\ Count("Bird") = 1

\* C2: whenever check_collisions runs with the bird above HEIGHT/2 or below -HEIGHT/2,
\* the transition to GameOver is requested, whatever the number of pipes
C2_OutOfBoundsHit == cc.ran /\ cc.oob => app_state.scheduled = "GameOver"

InField(b) == b.y <= HEIGHT \div 2 /\ b.y >= (-HEIGHT) \div 2

\* the rectangles overlap strictly: on both axes the centres are closer than the sum
\* of the half-extents
StrictOverlap(c, b) ==
    /\ 2 * Abs(c.x - b.x) < PIPE_WIDTH + BIRD_WIDTH
    /\ 2 * Abs(c.y - b.y) < PIPE_HEIGHT + BIRD_HEIGHT

\* C3: with the bird inside the vertical field bounds, check_collisions requests
\* GameOver if and only if some pipe's rectangle strictly overlaps the bird's on both
\* axes; overlap on one axis only, or edges that touch exactly, give no hit
C3_HitIffOverlap ==
    cc.ran /\ (\A b \in Idx("Bird") : InField(entities[b])) =>
        (app_state.scheduled = "GameOver"
            <=> \E b \in Idx("Bird"), c \in Idx("Pipe") :
                    StrictOverlap(entities[c], entities[b]))

\* check_collisions has run on a bird in the field whose rectangle touches a pipe's
\* edge on the X axis while overlapping it on the Y axis: no request
C3_Witness ==
    /\ cc.ran
    /\ \A b \in Idx("Bird") : InField(entities[b])
    /\ \E b \in Idx("Bird"), c \in Idx("Pipe") :
        /\ 2 * Abs(entities[c].x - entities[b].x) = PIPE_WIDTH + BIRD_WIDTH
        /\ 2 * Abs(entities[c].y - entities[b].y) < PIPE_HEIGHT + BIRD_HEIGHT
    /\ app_state.scheduled = "None"

\* C4: no round-scoped entity outlives the state it was created in, and there is no
\* pipe while the state is GameOver
C4_NoLeak ==
    /\ \A i \in 1..Len(entities) : entities[i].clean => entities[i].born = epoch
    /\ app_state.current = "GameOver" => Count("Pipe") = 0

\* the tick that detected the hit also spawned a couple, and GameOver holds no pipe
C4_Witness ==
    /\ BetweenTicks
    /\ app_state.current = "GameOver"
    /\ hit
    /\ tick_spawned > 0
    /\ Count("Pipe") = 0
    /\ Count("Button") = 1

\* C5: on entry to Game (after game_setup, before the first update) there is one bird
\* at (-WIDTH/4, 0) with velocity (0, 0) and gravity off, no pipe, and one pipe timer
\* with zero elapsed time
C5_FreshRound ==
    entered /\ pc = "run" /\ ran = {} =>
        /\ Count("Bird") = 1
        /\ \A b \in Idx("Bird") :
            /\ entities[b].x = -(WIDTH \div 4)
            /\ entities[b].y = 0
            /\ entities[b].vx = 0
            /\ entities[b].vy = 0
            /\ ~entities[b].gravity
        /\ Count("Pipe") = 0
        /\ Count("PipeTimer") = 1
        /\ \A t \in Idx("PipeTimer") : entities[t].elapsed = 0

\* Game has just been entered by a restart
C5_Witness ==
    /\ entered
    /\ pc = "run"
    /\ ran = {}
    /\ epoch = 2
    /\ requester = "restart_game"
    /\ Count("Bird") = 1

\* C6: between ticks of a round, the couples spawned so far are floor(accumulated dt
\* / period)
C6_SpawnCount ==
    BetweenTicks /\ app_state.current = "Game" => spawned = acc \div PERIOD

\* the order of section 2 of the specification
FixedOrder ==
    <<"jump", "apply_gravity", "apply_velocity", "spawn_pipes", "check_collisions",
      "remove_offscreen_pipes">>

\* C7: in every Playing tick the systems run in the fixed order jump, apply_gravity,
\* apply_velocity, spawn_pipes, check_collisions, remove_offscreen_pipes: what has run
\* so far is always a prefix of that order
C7_FixedOrder ==
    pc = "run" /\ active = UpdateGame =>
        \E k \in 0..Len(FixedOrder) : ran = {FixedOrder[i] : i \in 1..k}

\* C8: if a hit condition (an overlap with a pipe, or the bird out of the vertical
\* bounds) held when check_collisions ran in a tick, the state is GameOver at the end
\* of that tick
C8_SynchronousEnd == BetweenTicks /\ hit => app_state.current = "GameOver"

\* C9: the state changes only from Game to GameOver, on a request of check_collisions
\* that saw a hit, and from GameOver to Game, on a request of restart_game; no
\* transition leads from a state to itself, and at most one happens in a tick
C9_Alternate ==
    [][/\ app_state'.current # app_state.current =>
            \/ /\ app_state.current = "Game"
               /\ app_state'.current = "GameOver"
               /\ requester = "check_collisions"
               /\ hit
            \/ /\ app_state.current = "GameOver"
               /\ app_state'.current = "Game"
               /\ requester = "restart_game"
       /\ app_state'.transition.t \in {"ExitingFull", "Entering"} =>
            app_state'.transition.from # app_state'.transition.to
       /\ ntrans' <= 1]_vars

\* the second round has ended: Game, GameOver, Game, GameOver, one change in this tick
C9_Witness ==
    /\ BetweenTicks
    /\ epoch = 3
    /\ ntrans = 1
    /\ app_state.current = "GameOver"

\* C10: no request fails the program, a request made several times in one tick is
\* made once, and a tick in which check_collisions requested GameOver ends in GameOver
\* after exactly one transition
C10_RequestsIdempotent ==
    /\ ~panicked
    /\ cc.ran /\ cc.calls >= 1 => app_state.scheduled = "GameOver"
    /\ BetweenTicks /\ requester = "check_collisions" =>
        app_state.current = "GameOver" /\ ntrans = 1

\* in a round begun by a restart, check_collisions has called State::set for several
\* pipes in one tick
C10_Witness ==
    /\ epoch = 2
    /\ cc.ran
    /\ cc.calls >= 2
    /\ ~panicked
    /\ app_state.scheduled = "GameOver"

\* the birds of an entity list
BirdsOf(es) == {i \in 1..Len(es) : es[i].kind = "Bird"}

\* the step of one system of the pass
SystemStep(name) == name \in ran' \ ran

\* C11: apply_gravity gives vy - GRAVITY * dt to a bird whose Gravity flag is set and
\* leaves vy alone otherwise; and while no activation input has been delivered in the
\* round, the bird keeps vy = 0, y = 0 (its start height) and the flag unset
C11_GravityGated ==
    [][/\ SystemStep("apply_gravity") =>
            \A b \in BirdsOf(entities) :
                entities'[b].vy =
                    IF entities[b].gravity
                    THEN entities[b].vy - GRAVITY * dt
                    ELSE entities[b].vy
       /\ jumps' = 0 =>
            \A b \in BirdsOf(entities') :
                /\ entities'[b].vy = 0
                /\ entities'[b].y = 0
                /\ ~entities'[b].gravity]_vars

\* several ticks of a round have run, apply_gravity and apply_velocity among them, no
\* activation input has come, and the bird still hovers at its start height
C11_Witness ==
    /\ pc = "run"
    /\ {"apply_gravity", "apply_velocity"} \subseteq ran
    /\ jumps = 0
    /\ acc >= 2 * PERIOD
    /\ dt > 0
    /\ \E b \in Idx("Bird") : entities[b].y = 0 /\ entities[b].vy = 0 /\ ~entities[b].gravity

\* C12: a jump step with Space just pressed sets the bird's vy to JUMP_VELOCITY
\* whatever it was and its Gravity flag to true, and changes nothing else: not the
\* bird's vx or position, no pipe, no other entity, no command buffer; a second
\* activation would leave the result as it is
C12_JumpSetsVelocity ==
    [][space /\ SystemStep("jump") =>
            /\ Len(entities') = Len(entities)
            /\ \A i \in 1..Len(entities) :
                IF entities[i].kind = "Bird"
                THEN entities'[i] =
                        [entities[i] EXCEPT !.vy = JUMP_VELOCITY, !.gravity = TRUE]
                ELSE entities'[i] = entities[i]
            /\ jump(entities', TRUE) = entities'
            /\ spawn_q' = spawn_q
            /\ despawn_q' = despawn_q]_vars

\* jump has run with Space on a bird that was falling since an earlier activation,
\* next to a pipe couple: the bird is away from its start height and rises again
C12_Witness ==
    /\ "jump" \in ran
    /\ space
    /\ Count("Pipe") = 2
    /\ \E b \in Idx("Bird") :
        /\ entities[b].y < 0
        /\ entities[b].gravity
        /\ entities[b].vy = JUMP_VELOCITY

\* C13: within a round the Gravity flag of the bird never goes back from true to
\* false, it is false as long as no activation input has been delivered in the round,
\* and it becomes true only in a jump step with Space just pressed
C13_FallingMonotone ==
    [][/\ \A b \in BirdsOf(entities) :
            /\ b \in BirdsOf(entities')
            /\ entities'[b].born = entities[b].born
            => /\ entities[b].gravity => entities'[b].gravity
               /\ ~entities[b].gravity /\ entities'[b].gravity =>
                    space /\ SystemStep("jump")
       /\ \A b \in BirdsOf(entities') : entities'[b].gravity <=> jumps' >= 1]_vars

\* ticks have passed since the activation of the round and the flag is still set
C13_Witness ==
    /\ BetweenTicks
    /\ jumps = 1
    /\ acc >= 2 * PERIOD
    /\ epoch = 2
    /\ \E b \in Idx("Bird") : entities[b].gravity /\ entities[b].vy < 0

\* C14: remove_offscreen_pipes never changes the outcome.  The pipes it has removed
\* are carried on as ghosts, moved by apply_velocity as in the run without it: every
\* ghost is left of -WIDTH / 1.5 and overlaps no bird, and whenever check_collisions
\* runs it requests GameOver exactly when it would with the ghosts still present
C14_ReaperNeutral ==
    /\ \A g \in 1..Len(ghosts) :
        /\ 3 * ghosts[g].x < -(2 * WIDTH)
        /\ \A b \in Idx("Bird") : ~collides(ghosts[g], entities[b])
    /\ cc.ran => (cc.calls > 0 <=> cc.ghost_calls > 0)

\* check_collisions has run in a tick after a couple was removed, its ghosts moved on
\* since, and has seen a hit
C14_Witness ==
    /\ cc.ran
    /\ Len(ghosts) >= 2
    /\ \E g \in 1..Len(ghosts) :
        3 * (ghosts[g].x + (PIPE_SPEED * 100 * U) \div (Q * Q)) < -(2 * WIDTH)
    /\ cc.calls > 0
    /\ cc.ghost_calls > cc.calls

\* C15: every draw with MIN_HOLE_SIZE <= hole_size < MAX_HOLE_SIZE and MIN_HOLE_HEIGHT
\* <= hole_height < MAX_HOLE_HEIGHT creates exactly two pipes, both at x = WIDTH/2
\* with velocity (-PIPE_SPEED, 0); the bottom edge of the upper one lies hole_size
\* above the top edge of the lower one, strictly above it, and hole_height is midway
C15_SpawnGeometry ==
    spawn_q # <<>> =>
        /\ Len(spawn_q) = 2 * Len(draws)
        /\ \A k \in 1..Len(draws) :
            LET hole_size == draws[k][1]
                hole_height == draws[k][2]
                upper == spawn_q[2 * k - 1]
                lower == spawn_q[2 * k]
                upper_bottom == upper.y - PIPE_HEIGHT \div 2
                lower_top == lower.y + PIPE_HEIGHT \div 2
            IN  /\ hole_size >= MIN_HOLE_SIZE /\ hole_size < MAX_HOLE_SIZE
                /\ hole_height >= MIN_HOLE_HEIGHT /\ hole_height < MAX_HOLE_HEIGHT
                /\ \A p \in {upper, lower} :
                    /\ p.kind = "Pipe"
                    /\ p.x = WIDTH \div 2
                    /\ p.vx = -PIPE_SPEED
                    /\ p.vy = 0
                /\ upper_bottom - lower_top = hole_size
                /\ upper_bottom + lower_top = 2 * hole_height
                /\ upper_bottom > lower_top

\* a couple has been created for the smallest hole at a height just below the maximum
C15_Witness ==
    /\ Len(spawn_q) = 2
    /\ draws = << <<MIN_HOLE_SIZE, MAX_HOLE_HEIGHT - 1>> >>
    /\ spawn_q[1].y - spawn_q[2].y = PIPE_HEIGHT + MIN_HOLE_SIZE

\* the entity list but for the change-detection flags
Seen(es) == [i \in 1..Len(es) |-> [es[i] EXCEPT !.changed = FALSE]]

\* C16: in a frame that begins in GameOver with Space just pressed and no button
\* clicked, nothing changes: jump does not run, the state stays GameOver with no
\* transition scheduled, no round starts, and the entities stay as they are
C16_SpaceWhileEnded ==
    [][/\ space
       /\ pc = "run"
       /\ app_state.current = "GameOver"
       /\ ntrans = 0
       /\ \A i \in Idx("Button") : entities[i].interaction # "Clicked"
       => /\ "jump" \notin active
          /\ app_state'.current = "GameOver"
          /\ app_state'.scheduled = "None"
          /\ epoch' = epoch
          /\ Seen(entities') = Seen(entities)
          /\ ~panicked']_vars

\* restart_game has run in a frame begun in GameOver with Space just pressed and the
\* pointer over the button, not clicked: the game-over screen stands
C16_Witness ==
    /\ space
    /\ pc = "run"
    /\ app_state.current = "GameOver"
    /\ ntrans = 0
    /\ "restart_game" \in ran
    /\ \E i \in Idx("Button") : entities[i].interaction = "Hovered"
    /\ Count("Image") = 1
    /\ Count("Bird") = 0

\* C17: a mouse press while the state is Game is ignored: in the update pass of a
\* frame that begins in Game with the mouse button pressed, restart_game, game_setup
\* and scene_change_clean are not among the systems run, no transition to Game is
\* requested, GameOver is requested only on a hit, the state stays Game and nothing
\* panics; and a request of restart_game is only ever made in the update of GameOver
C17_RestartOnlyFromEnded ==
    [][/\ /\ mouse
          /\ pc = "run"
          /\ on_update(app_state, "Game")
          /\ ntrans = 0
          => /\ active \subseteq UpdateGame
             /\ app_state'.current = "Game"
             /\ app_state'.scheduled \in {"None", "GameOver"}
             /\ app_state'.scheduled = "GameOver" => hit'
             /\ requester' # "restart_game"
             /\ epoch' = epoch
             /\ ~panicked'
       /\ requester' = "restart_game" /\ requester # "restart_game" =>
            on_update(app_state, "GameOver") /\ SystemStep("restart_game")]_vars

\* in a round begun by a restart, with the game-over screen and its button gone, the
\* update pass of a frame with the mouse button pressed has run all its systems: the
\* round goes on
C17_Witness ==
    /\ mouse
    /\ pc = "run"
    /\ on_update(app_state, "Game")
    /\ ntrans = 0
    /\ epoch = 2
    /\ ran = UpdateGame
    /\ Count("Button") = 0
    /\ Count("Bird") = 1
    /\ app_state.scheduled = "None"

\* the abscissa pipe i had when the frame began
PreMoveX(i) ==
    IF "apply_velocity" \in ran
    THEN entities[i].x - (entities[i].vx * dt * 100 * U) \div (Q * Q)
    ELSE entities[i].x

KeepsIndices == pc = "idle" \/ (ran' # ran /\ ran \subseteq ran')

\* the pipes of an entity list
PipesOf(es) == {i \in 1..Len(es) : es[i].kind = "Pipe"}

\* C19: an apply_velocity step adds velocity * dt * 100 to the position of every
\* entity with a velocity, without clamping, and leaves the others where they are; no
\* other system and no frame begin moves an entity; the bird keeps x = -WIDTH/4 and
\* vx = 0; every pipe keeps the y of its spawn and the velocity (-PIPE_SPEED, 0), and
\* its x never increases
C19_OnlyVelocityMoves ==
    [][/\ SystemStep("apply_velocity") =>
            \A i \in 1..Len(entities) :
                IF entities[i].kind \in {"Bird", "Pipe"}
                THEN /\ entities'[i].x * Q * Q = entities[i].x * Q * Q
                                                    + entities[i].vx * dt * 100 * U
                     /\ entities'[i].y * Q * Q = entities[i].y * Q * Q
                                                    + entities[i].vy * dt * 100 * U
                ELSE entities'[i].x = entities[i].x /\ entities'[i].y = entities[i].y
       /\ KeepsIndices =>
            /\ Len(entities') = Len(entities)
            /\ ~SystemStep("apply_velocity") =>
                \A i \in 1..Len(entities) :
                    entities'[i].x = entities[i].x /\ entities'[i].y = entities[i].y
            /\ \A i \in PipesOf(entities) :
                /\ entities'[i].kind = "Pipe"
                /\ entities'[i].x <= entities[i].x
                /\ entities'[i].y = entities[i].y
       /\ \A b \in BirdsOf(entities') :
            entities'[b].x = -(WIDTH \div 4) /\ entities'[b].vx = 0
       /\ \A i \in PipesOf(entities') :
            /\ entities'[i].vx = -PIPE_SPEED
            /\ entities'[i].vy = 0
            /\ entities'[i].y \in PipeYs
            /\ entities'[i].x <= WIDTH \div 2]_vars

\* apply_velocity has run in a long frame: the bird has left the field through the
\* top, unclamped, and a pipe couple is on its way
C19_Witness ==
    /\ "apply_velocity" \in ran
    /\ dt = LongDt
    /\ \E b \in Idx("Bird") : entities[b].y > HEIGHT \div 2
    /\ \E i \in Idx("Pipe") : entities[i].x < WIDTH \div 2

\* C20: the bird's vy never exceeds JUMP_VELOCITY, and it does not increase in any
\* step of a system other than a jump with Space just pressed: between activations
\* it only falls
C20_VyBounded ==
    [][/\ \A b \in BirdsOf(entities') : entities'[b].vy <= JUMP_VELOCITY
       /\ KeepsIndices /\ ~(space /\ SystemStep("jump")) =>
            \A b \in BirdsOf(entities) :
                /\ entities'[b].kind = "Bird"
                /\ entities'[b].vy <= entities[b].vy]_vars

\* ticks after its activation the bird falls faster than it rose
C20_Witness ==
    /\ BetweenTicks
    /\ jumps = 1
    /\ \E b \in Idx("Bird") : entities[b].vy < -JUMP_VELOCITY /\ entities[b].y < 0

====
